---- MODULE Spec2Model ----
(***************************************************************************)
(* Build recipes of aerospike-common and aerospike-client-c.               *)
(*                                                                         *)
(* A Python str is modelled as a sequence of one-character strings, so     *)
(* that slicing, splitting, joining and byte equality are computed and     *)
(* not assumed.  An optional value is a sequence of length zero or one.    *)
(***************************************************************************)
EXTENDS Integers, Sequences, FiniteSets, TLC

VARIABLES
    \* aerospike-common: inputs of a build invocation
    settings,           \* self.settings: [os, compiler, arch]
    shared,             \* self.options.shared
    dependencies,       \* self.dependencies: ordered, each [includedirs, libdirs]
    fs,                 \* the file system: directory path -> [listable, entries]
    \* aerospike-common: the invocation
    pc,                 \* position of the invocation
    error,              \* the exception that ended it, "" when none
    invocation,         \* number of the build invocation on these inputs
    first_result,       \* what _get_ld_flags returned in the first invocation
    include_flags,      \* build(): include_flags
    ld_flags,           \* build(): ld_flags
    dep_i, dir_j,       \* _get_ld_flags: position of the two nested loops
    static_libs,        \* _get_ld_flags: static_libs
    dynamic_libs_dirs,  \* _get_ld_flags: dynamic_libs_dirs
    dynamic_libs,       \* _get_ld_flags: dynamic_libs
    listdir_log,        \* every os.listdir call of the invocation and its outcome
    synth_calls,        \* number of calls of _get_ld_flags in the invocation
    synth_result,       \* the value _get_ld_flags returned, if it returned
    commands,           \* the commands given to self.run in the invocation
    \* aerospike-client-c
    c_version, c_os, c_options, c_pc, c_error, c_requires, c_lookups, c_commands,
    \* _get_dynamic_library_name alone
    n_file_name, n_pc, n_lib

common_vars == <<settings, shared, dependencies, fs, pc, error, invocation,
                 first_result, include_flags, ld_flags, dep_i, dir_j, static_libs,
                 dynamic_libs_dirs, dynamic_libs, listdir_log, synth_calls,
                 synth_result, commands>>
client_vars == <<c_version, c_os, c_options, c_pc, c_error, c_requires, c_lookups,
                 c_commands>>
name_vars == <<n_file_name, n_pc, n_lib>>
vars == <<common_vars, client_vars, name_vars>>

----------------------------------------------------------------------------
(* Bounds of the model *)

MaxDeps == 2            \* dependencies in self.dependencies
MaxInvocations == 2     \* build invocations on the same inputs
MaxNameLen == 5         \* characters of a file name given to the name function

----------------------------------------------------------------------------
(* String literals *)

SPACE == <<" ">>
SLASH == <<"/">>
QUOTE == <<"'">>
DOT_A == <<".", "a">>
DASH_L == <<"-", "L">>
DASH_l == <<"-", "l">>
DASH_I == <<"-", "I">>
LDFLAGS_OPEN == <<"L", "D", "F", "L", "A", "G", "S", "=", "'">>
EXT_CFLAGS_OPEN == <<"E", "X", "T", "_", "C", "F", "L", "A", "G", "S", "=", "'">>
MAKE_PREFIX == <<"m", "a", "k", "e", " ", "T", "A", "R", "G", "E", "T", "_", "B", "A",
                 "S", "E", "=", "'", "t", "a", "r", "g", "e", "t", "'", " ">>
DASH_C == <<" ", "-", "C", " ">>

\* inputs: paths and file names
D1 == <<"/", "d", "1">>
D2 == <<"/", "d", "2">>
I1 == <<"/", "i", "1">>
source_path == <<"/", "s", "r", "c">>
LIBX_A == <<"l", "i", "b", "x", ".", "a">>
LIBY_SO == <<"l", "i", "b", "y", ".", "s", "o">>
LIBFOO_SO_1 == <<"l", "i", "b", "f", "o", "o", ".", "s", "o", ".", "1">>
SUB_A == <<"s", "u", "b", ".", "a">>

----------------------------------------------------------------------------
(* Python str and os.path operations *)

\* s[n:]
slice_from(s, n) == IF Len(s) <= n THEN <<>> ELSE SubSeq(s, n + 1, Len(s))

\* s.endswith(suffix)
endswith(s, suffix) ==
    /\ Len(s) >= Len(suffix)
    /\ SubSeq(s, Len(s) - Len(suffix) + 1, Len(s)) = suffix

\* s.startswith(prefix)
startswith(s, prefix) ==
    /\ Len(s) >= Len(prefix)
    /\ SubSeq(s, 1, Len(prefix)) = prefix

\* s.split(".", 1)[0]: the part of s before its first "."
RECURSIVE split_first(_)
split_first(s) ==
    IF s = <<>> \/ Head(s) = "." THEN <<>>
    ELSE <<Head(s)>> \o split_first(Tail(s))

\* sep.join(items)
RECURSIVE str_join(_, _)
str_join(sep, items) ==
    IF items = <<>> THEN <<>>
    ELSE IF Len(items) = 1 THEN items[1]
    ELSE items[1] \o sep \o str_join(sep, Tail(items))

\* os.path.join(a, b) on POSIX
os_path_join(a, b) ==
    IF startswith(b, SLASH) THEN b
    ELSE IF a = <<>> \/ endswith(a, SLASH) THEN a \o b
    ELSE a \o SLASH \o b

\* [f"{prefix}{i}" for i in items]
prefixed(prefix, items) == [k \in 1..Len(items) |-> prefix \o items[k]]

----------------------------------------------------------------------------
(* aerospike-common: the recipe's tables and pure helpers *)

\* AerospikeCommonConan._compiler_arch_flags
_compiler_arch_flags ==
    ( "gcc" :> ( "x86" :> <<"-", "m", "3", "2">>
              @@ "x86_64" :> <<"-", "m", "6", "4">>
              @@ "armv8" :> <<"-", "m", "a", "r", "c", "h", "=", "a", "a", "r", "c",
                              "h", "6", "4">> )
   @@ "clang" :> ( "x86" :> <<"-", "a", "r", "c", "h", " ", "i", "3", "8", "6">>
                @@ "x86_64" :> <<"-", "a", "r", "c", "h", " ", "x", "8", "6", "_",
                                 "6", "4">>
                @@ "armv8" :> <<"-", "a", "r", "c", "h", " ", "a", "r", "m", "6",
                                "4">> )
   @@ "apple-clang" :> ( "x86" :> <<"-", "a", "r", "c", "h", " ", "i", "3", "8", "6">>
                      @@ "x86_64" :> <<"-", "a", "r", "c", "h", " ", "x", "8", "6",
                                       "_", "6", "4">>
                      @@ "armv8" :> <<"-", "a", "r", "c", "h", " ", "a", "r", "m",
                                      "6", "4">> ) )

\* validate() without its check of the architecture
validate_raises_compiler_only(s) ==
    IF s.os = "Windows" THEN "ConanException"
    ELSE IF s.compiler \notin DOMAIN _compiler_arch_flags THEN "ConanException"
    ELSE ""

\* validate(): the exception it raises for settings s, "" when it returns
validate_raises(s) ==
    IF s.os = "Windows" THEN "ConanException"
    ELSE IF s.compiler \notin DOMAIN _compiler_arch_flags THEN "ConanException"
    ELSE IF s.arch \notin DOMAIN _compiler_arch_flags[s.compiler]
         THEN "ConanException"
    ELSE ""

\* _get_dynamic_library_name(file_name)
_get_dynamic_library_name(file_name) == split_first(slice_from(file_name, 3))

\* os.path.isfile(path): path names a regular file of the file system
os_path_isfile(path) ==
    \E d \in DOMAIN fs : \E e \in fs[d].entries :
        /\ fs[d].listable
        /\ e.isfile
        /\ os_path_join(d, e.name) = path

\* filter(lambda item: os.path.isfile(os.path.join(dir, item)), listing)
files_of(dir, listing) ==
    SelectSeq(listing, LAMBDA item : os_path_isfile(os_path_join(dir, item)))

\* the loop recording a static archive by its name, not by its full path
RECURSIVE lib_loop_by_name(_, _, _, _)
lib_loop_by_name(dir, files, st, dy) ==
    IF files = <<>> THEN [static_libs |-> st, dynamic_libs |-> dy]
    ELSE LET lib == Head(files) IN
         IF endswith(lib, DOT_A)
         THEN lib_loop_by_name(dir, Tail(files), Append(st, lib), dy)
         ELSE lib_loop_by_name(dir, Tail(files), st,
                               Append(dy, DASH_l \o _get_dynamic_library_name(lib)))

\* the loop "for lib in files" of _get_ld_flags: the two lists after it
RECURSIVE lib_loop(_, _, _, _)
lib_loop(dir, files, st, dy) ==
    IF files = <<>> THEN [static_libs |-> st, dynamic_libs |-> dy]
    ELSE LET lib == Head(files) IN
         IF endswith(lib, DOT_A)
         THEN lib_loop(dir, Tail(files), Append(st, os_path_join(dir, lib)), dy)
         ELSE lib_loop(dir, Tail(files), st,
                       Append(dy, DASH_l \o _get_dynamic_library_name(lib)))

\* a search path added only when it is not in the list yet
add_search_path_once(dirs, dir) ==
    IF \E k \in 1..Len(dirs) : dirs[k] = DASH_L \o dir THEN dirs
    ELSE Append(dirs, DASH_L \o dir)

\* dynamic_libs_dirs.append(f"-L{dir}")
add_search_path(dirs, dir) == Append(dirs, DASH_L \o dir)

\* LDFLAGS given without the synthesized string
ld_flags_of_nothing(result) == LDFLAGS_OPEN \o QUOTE

\* build(): ld_flags = f"LDFLAGS='{self._get_ld_flags()}'"
ld_flags_of(result) == LDFLAGS_OPEN \o result \o QUOTE

\* the returned string with the static paths before the -l flags
ld_flags_string_static_first(dirs, dy, st) ==
    str_join(SPACE, dirs) \o SPACE \o str_join(SPACE, st) \o SPACE
        \o str_join(SPACE, dy)

\* the returned string joining the flags of the three lists as one list
ld_flags_string_one_list(dirs, dy, st) == str_join(SPACE, dirs \o dy \o st)

\* the value _get_ld_flags returns from its three lists
ld_flags_string(dirs, dy, st) ==
    str_join(SPACE, dirs) \o SPACE \o str_join(SPACE, dy) \o SPACE
        \o str_join(SPACE, st)

\* the orders in which os.listdir may return the names of a set of entries:
\* "the list is in arbitrary order"
listing_orders(entries) ==
    LET names == {e.name : e \in entries}
        n == Cardinality(names)
    IN {l \in [1..n -> names] : \A a, b \in 1..n : a # b => l[a] # l[b]}

\* os.listdir with an unreadable directory taken as an empty one
os_listdir_skip_unreadable(dir) ==
    IF fs[dir].listable
    THEN {[dir |-> dir, ok |-> TRUE, names |-> l] : l \in listing_orders(fs[dir].entries)}
    ELSE {[dir |-> dir, ok |-> TRUE, names |-> <<>>]}

\* os.listdir(dir): its possible outcomes
os_listdir(dir) ==
    IF fs[dir].listable
    THEN {[dir |-> dir, ok |-> TRUE, names |-> l] : l \in listing_orders(fs[dir].entries)}
    ELSE {[dir |-> dir, ok |-> FALSE, names |-> <<>>]}

\* the first position (dependency, directory) of the nested loops at or after
\* (i, j): dependencies without library directories are passed over
RECURSIVE loop_position(_, _)
loop_position(i, j) ==
    IF i > Len(dependencies) THEN <<i, 1>>
    ELSE IF j <= Len(dependencies[i].libdirs) THEN <<i, j>>
    ELSE loop_position(i + 1, 1)

\* build(): include_flags, from every dependency's includedirs in order
RECURSIVE includes_of(_)
includes_of(deps) ==
    IF deps = <<>> THEN <<>>
    ELSE Head(deps).includedirs \o includes_of(Tail(deps))

\* build(): the command given to self.run
make_command(ld, inc, flag) ==
    MAKE_PREFIX \o ld \o SPACE
        \o (EXT_CFLAGS_OPEN \o inc \o SPACE \o flag \o QUOTE)
        \o DASH_C \o source_path

----------------------------------------------------------------------------
(* aerospike-common: inputs *)

DirPaths == {D1, D2}
EntryChoices ==
    { [name |-> LIBX_A, isfile |-> TRUE],
      [name |-> LIBY_SO, isfile |-> TRUE],
      [name |-> LIBFOO_SO_1, isfile |-> TRUE],
      [name |-> SUB_A, isfile |-> FALSE] }
\* an empty directory, one holding only a subdirectory, one static archive, one
\* dynamic library, one of each, two dynamic libraries, an archive beside a
\* subdirectory; and a directory that cannot be listed
DirectoryChoices ==
    {[listable |-> TRUE, entries |-> s] :
        s \in { {},
                {[name |-> SUB_A, isfile |-> FALSE]},
                {[name |-> LIBX_A, isfile |-> TRUE]},
                {[name |-> LIBFOO_SO_1, isfile |-> TRUE]},
                {[name |-> LIBX_A, isfile |-> TRUE], [name |-> LIBY_SO, isfile |-> TRUE]},
                {[name |-> LIBY_SO, isfile |-> TRUE],
                 [name |-> LIBFOO_SO_1, isfile |-> TRUE]},
                {[name |-> LIBX_A, isfile |-> TRUE], [name |-> SUB_A, isfile |-> FALSE]} }}
    \cup {[listable |-> FALSE, entries |-> {}]}
LibdirsChoices == {<<>>, <<D1>>, <<D2>>, <<D1, D2>>, <<D2, D1>>}
DependencyChoices ==
    {[includedirs |-> <<I1>>, libdirs |-> l] : l \in LibdirsChoices}
SettingsChoices ==
    { [os |-> "Linux",   compiler |-> "gcc",   arch |-> "x86_64"],
      [os |-> "Macos",   compiler |-> "clang", arch |-> "armv8"],
      [os |-> "Windows", compiler |-> "gcc",   arch |-> "x86_64"],
      [os |-> "Linux",   compiler |-> "msvc",  arch |-> "x86_64"],
      [os |-> "Linux",   compiler |-> "gcc",   arch |-> "mips"] }
DependenciesChoices ==
    UNION {[1..n -> DependencyChoices] : n \in 0..MaxDeps}

----------------------------------------------------------------------------
(* aerospike-common: a build invocation (validate, then build) *)

CommonIdle ==
    /\ settings = [os |-> "Linux", compiler |-> "gcc", arch |-> "x86_64"]
    /\ shared = FALSE
    /\ dependencies = <<>>
    /\ fs = [d \in DirPaths |-> [listable |-> TRUE, entries |-> {}]]
    /\ pc = "idle"
    /\ error = ""
    /\ invocation = 0
    /\ first_result = <<>>
    /\ include_flags = <<>>
    /\ ld_flags = <<>>
    /\ dep_i = 1
    /\ dir_j = 1
    /\ static_libs = <<>>
    /\ dynamic_libs_dirs = <<>>
    /\ dynamic_libs = <<>>
    /\ listdir_log = <<>>
    /\ synth_calls = 0
    /\ synth_result = <<>>
    /\ commands = <<>>

CommonInit ==
    /\ settings \in SettingsChoices
    /\ shared \in BOOLEAN
    /\ dependencies \in DependenciesChoices
    /\ fs \in [DirPaths -> DirectoryChoices]
    /\ pc = "validate"
    /\ error = ""
    /\ invocation = 1
    /\ first_result = <<>>
    /\ include_flags = <<>>
    /\ ld_flags = <<>>
    /\ dep_i = 1
    /\ dir_j = 1
    /\ static_libs = <<>>
    /\ dynamic_libs_dirs = <<>>
    /\ dynamic_libs = <<>>
    /\ listdir_log = <<>>
    /\ synth_calls = 0
    /\ synth_result = <<>>
    /\ commands = <<>>

inputs == <<settings, shared, dependencies, fs>>
loop_vars == <<dep_i, dir_j, static_libs, dynamic_libs_dirs, dynamic_libs,
               listdir_log>>

\* validate()
validate ==
    /\ pc = "validate"
    /\ IF validate_raises(settings) # ""
       THEN /\ pc' = "failed"
            /\ error' = validate_raises(settings)
       ELSE /\ pc' = "build"
            /\ error' = error
    /\ UNCHANGED <<inputs, invocation, first_result, include_flags, ld_flags,
                   loop_vars, synth_calls, synth_result, commands>>
    /\ UNCHANGED <<client_vars, name_vars>>

\* build() up to the call of _get_ld_flags, and that function's first lines
build_begin ==
    /\ pc = "build"
    /\ include_flags' = str_join(SPACE, prefixed(DASH_I, includes_of(dependencies)))
    /\ ld_flags' = <<>>
    /\ IF shared
       THEN /\ pc' = "ld_loop"
            /\ synth_calls' = synth_calls + 1
            /\ static_libs' = <<>>
            /\ dynamic_libs_dirs' = <<>>
            /\ dynamic_libs' = <<>>
            /\ dep_i' = loop_position(1, 1)[1]
            /\ dir_j' = loop_position(1, 1)[2]
       ELSE /\ pc' = "run"
            /\ UNCHANGED <<synth_calls, static_libs, dynamic_libs_dirs,
                           dynamic_libs, dep_i, dir_j>>
    /\ UNCHANGED <<inputs, error, invocation, first_result, listdir_log,
                   synth_result, commands>>
    /\ UNCHANGED <<client_vars, name_vars>>

\* _get_ld_flags: one pass of the inner loop, "for dir in ...libdirs"
ld_directory ==
    /\ pc = "ld_loop"
    /\ dep_i <= Len(dependencies)
    /\ LET dir == dependencies[dep_i].libdirs[dir_j] IN
       \E listed \in os_listdir(dir) :
           /\ dynamic_libs_dirs' = add_search_path(dynamic_libs_dirs, dir)
           /\ listdir_log' = Append(listdir_log, listed)
           /\ IF listed.ok
              THEN LET after == lib_loop(dir, files_of(dir, listed.names),
                                         static_libs, dynamic_libs) IN
                   /\ static_libs' = after.static_libs
                   /\ dynamic_libs' = after.dynamic_libs
                   /\ dep_i' = loop_position(dep_i, dir_j + 1)[1]
                   /\ dir_j' = loop_position(dep_i, dir_j + 1)[2]
                   /\ pc' = pc
                   /\ error' = error
              ELSE /\ pc' = "failed"
                   /\ error' = "OSError"
                   /\ UNCHANGED <<static_libs, dynamic_libs, dep_i, dir_j>>
    /\ UNCHANGED <<inputs, invocation, first_result, include_flags, ld_flags,
                   synth_calls, synth_result, commands>>
    /\ UNCHANGED <<client_vars, name_vars>>

\* _get_ld_flags: the lines after the loops, and build()'s use of the result
ld_return ==
    /\ pc = "ld_loop"
    /\ dep_i > Len(dependencies)
    /\ synth_result' = <<ld_flags_string(dynamic_libs_dirs, dynamic_libs, static_libs)>>
    /\ ld_flags' = ld_flags_of(synth_result'[1])
    /\ pc' = "run"
    /\ UNCHANGED <<inputs, error, invocation, first_result, include_flags,
                   loop_vars, synth_calls, commands>>
    /\ UNCHANGED <<client_vars, name_vars>>

\* build(): cc_flags and self.run
build_run ==
    /\ pc = "run"
    /\ IF /\ settings.compiler \in DOMAIN _compiler_arch_flags
          /\ settings.arch \in DOMAIN _compiler_arch_flags[settings.compiler]
       THEN /\ commands' = Append(commands,
                   make_command(ld_flags, include_flags,
                       _compiler_arch_flags[settings.compiler][settings.arch]))
            /\ pc' = "done"
            /\ error' = error
       ELSE /\ pc' = "failed"
            /\ error' = "KeyError"
            /\ commands' = commands
    /\ UNCHANGED <<inputs, invocation, first_result, include_flags, ld_flags,
                   loop_vars, synth_calls, synth_result>>
    /\ UNCHANGED <<client_vars, name_vars>>

\* a further build invocation on the same inputs: a fresh recipe object
build_again ==
    /\ pc \in {"done", "failed"}
    /\ invocation < MaxInvocations
    /\ invocation' = invocation + 1
    /\ first_result' = IF invocation = 1 THEN synth_result ELSE first_result
    /\ pc' = "validate"
    /\ error' = ""
    /\ include_flags' = <<>>
    /\ ld_flags' = <<>>
    /\ dep_i' = 1
    /\ dir_j' = 1
    /\ static_libs' = <<>>
    /\ dynamic_libs_dirs' = <<>>
    /\ dynamic_libs' = <<>>
    /\ listdir_log' = <<>>
    /\ synth_calls' = 0
    /\ synth_result' = <<>>
    /\ commands' = <<>>
    /\ UNCHANGED inputs
    /\ UNCHANGED <<client_vars, name_vars>>

CommonNext ==
    \/ validate
    \/ build_begin
    \/ ld_directory
    \/ ld_return
    \/ build_run

----------------------------------------------------------------------------
(* aerospike-client-c: requirements() and build() *)

OPENSSL == <<"o", "p", "e", "n", "s", "s", "l">>
ZLIB == <<"z", "l", "i", "b">>
LUA == <<"l", "u", "a">>
LIBEV == <<"l", "i", "b", "e", "v">>
LIBUV == <<"l", "i", "b", "u", "v">>
LIBEVENT == <<"l", "i", "b", "e", "v", "e", "n", "t">>
NONE == <<"N", "o", "n", "e">>
EVENT_LIB_EQ == <<"E", "V", "E", "N", "T", "_", "L", "I", "B", "=">>
LUAMOD_OPEN == <<" ", "L", "U", "A", "M", "O", "D", "=", "'">>
EXT_CFLAGS_SEP == <<"'", " ", "E", "X", "T", "_", "C", "F", "L", "A", "G", "S", "=", "'">>
INCLUDE == <<"/", "i", "n", "c", "l", "u", "d", "e">>
PACKAGES == <<"/", "p", "/">>

\* inputs
VersionChoices == {"6.6.0", "6.7.0"}
OsChoices == {"Linux", "Macos", "Windows"}
EventLibraryChoices == {LIBEV, LIBUV, LIBEVENT, NONE}

\* bool(self.options.event_library): the option value None is false
event_library_set(options) == options.event_library # NONE

\* requirements(): the requirements it declares, in order
requirements(version, options) ==
    <<OPENSSL, ZLIB>>
    \o (IF version = "6.6.0" THEN <<LUA>> ELSE <<>>)
    \o (IF options.event_library = LIBEV THEN <<LIBEV>>
        ELSE IF options.event_library = LIBUV THEN <<LIBUV>>
        ELSE IF options.event_library = LIBEVENT THEN <<LIBEVENT>>
        ELSE <<>>)

\* build(): the names it looks up in self.deps_cpp_info, in order
build_lookups(options) ==
    <<OPENSSL, LUA>>
    \o (IF event_library_set(options) THEN <<options.event_library>> ELSE <<>>)

\* self.deps_cpp_info[name].rootpath of a declared requirement
rootpath(name) == PACKAGES \o name

\* self.deps_cpp_info[name] raises for a name that is no requirement
declared_in(name, declared) == \E k \in 1..Len(declared) : declared[k] = name

\* the lookups build() makes: all of them, or those up to the first that raises
RECURSIVE lookups_made(_, _)
lookups_made(names, declared) ==
    IF names = <<>> THEN <<>>
    ELSE IF declared_in(Head(names), declared)
         THEN <<Head(names)>> \o lookups_made(Tail(names), declared)
         ELSE <<Head(names)>>

\* build(): the command given to self.run
client_command(options) ==
    LET includes == <<rootpath(OPENSSL)>>
                    \o (IF event_library_set(options)
                        THEN <<rootpath(options.event_library)>> ELSE <<>>)
        lua_include == rootpath(LUA) \o INCLUDE
        event_library == IF event_library_set(options)
                         THEN EVENT_LIB_EQ \o options.event_library ELSE <<>>
        include_flags_c ==
            str_join(SPACE, [k \in 1..Len(includes) |-> DASH_I \o includes[k] \o INCLUDE])
    IN MAKE_PREFIX \o event_library \o LUAMOD_OPEN \o lua_include
           \o EXT_CFLAGS_SEP \o include_flags_c \o QUOTE \o DASH_C \o source_path

ClientIdle ==
    /\ c_version = ""
    /\ c_os = ""
    /\ c_options = [shared |-> FALSE, fPIC |-> <<>>, event_library |-> NONE]
    /\ c_pc = "idle"
    /\ c_error = ""
    /\ c_requires = <<>>
    /\ c_lookups = <<>>
    /\ c_commands = <<>>

ClientInit ==
    /\ c_version \in VersionChoices
    /\ c_os \in OsChoices
    /\ c_options \in [shared : BOOLEAN, fPIC : {<<TRUE>>, <<FALSE>>},
                      event_library : EventLibraryChoices]
    /\ c_pc = "configure"
    /\ c_error = ""
    /\ c_requires = <<>>
    /\ c_lookups = <<>>
    /\ c_commands = <<>>

\* configure()
c_configure ==
    /\ c_pc = "configure"
    /\ c_options' = IF c_options.shared THEN [c_options EXCEPT !.fPIC = <<>>]
                    ELSE c_options
    /\ c_pc' = "requirements"
    /\ UNCHANGED <<c_version, c_os, c_error, c_requires, c_lookups, c_commands>>
    /\ UNCHANGED <<common_vars, name_vars>>

\* requirements()
c_requirements ==
    /\ c_pc = "requirements"
    /\ c_requires' = requirements(c_version, c_options)
    /\ c_pc' = "validate"
    /\ UNCHANGED <<c_version, c_os, c_options, c_error, c_lookups, c_commands>>
    /\ UNCHANGED <<common_vars, name_vars>>

\* validate()
c_validate ==
    /\ c_pc = "validate"
    /\ IF c_os = "Windows"
       THEN /\ c_pc' = "failed"
            /\ c_error' = "ConanInvalidConfiguration"
       ELSE /\ c_pc' = "build"
            /\ c_error' = c_error
    /\ UNCHANGED <<c_version, c_os, c_options, c_requires, c_lookups, c_commands>>
    /\ UNCHANGED <<common_vars, name_vars>>

\* build()
c_build ==
    /\ c_pc = "build"
    /\ c_lookups' = lookups_made(build_lookups(c_options), c_requires)
    /\ IF \A k \in 1..Len(c_lookups') : declared_in(c_lookups'[k], c_requires)
       THEN /\ c_commands' = Append(c_commands, client_command(c_options))
            /\ c_pc' = "done"
            /\ c_error' = c_error
       ELSE /\ c_commands' = c_commands
            /\ c_pc' = "failed"
            /\ c_error' = "KeyError"
    /\ UNCHANGED <<c_version, c_os, c_options, c_requires>>
    /\ UNCHANGED <<common_vars, name_vars>>

----------------------------------------------------------------------------
(* _get_dynamic_library_name alone, on every short file name *)

NameAlphabet == {"l", "i", "b", ".", "x"}
NameChoices == UNION {[1..n -> NameAlphabet] : n \in 0..MaxNameLen}

NameIdle ==
    /\ n_file_name = <<>>
    /\ n_pc = "idle"
    /\ n_lib = <<>>

NameInit ==
    /\ n_file_name \in NameChoices
    /\ n_pc = "call"
    /\ n_lib = <<>>

\* a call of _get_dynamic_library_name(n_file_name)
name_call ==
    /\ n_pc = "call"
    /\ n_lib' = _get_dynamic_library_name(n_file_name)
    /\ n_pc' = "returned"
    /\ UNCHANGED n_file_name
    /\ UNCHANGED <<common_vars, client_vars>>

----------------------------------------------------------------------------
(* Properties of aerospike-common's flag synthesis *)

\* the library directories of all dependencies, in dependency-then-directory order
RECURSIVE all_libdirs(_)
all_libdirs(deps) ==
    IF deps = <<>> THEN <<>>
    ELSE Head(deps).libdirs \o all_libdirs(Tail(deps))

LibDirs == all_libdirs(dependencies)
SynthReturned == synth_result # <<>>
Count(x, seq) == Cardinality({k \in 1..Len(seq) : seq[k] = x})

\* the regular files of the k-th library directory, as <<k, entry>>
StaticFiles ==
    {ke \in (1..Len(LibDirs)) \X EntryChoices :
        /\ ke[2] \in fs[LibDirs[ke[1]]].entries
        /\ ke[2].isfile
        /\ endswith(ke[2].name, DOT_A)}
DynamicFiles ==
    {ke \in (1..Len(LibDirs)) \X EntryChoices :
        /\ ke[2] \in fs[LibDirs[ke[1]]].entries
        /\ ke[2].isfile
        /\ ~endswith(ke[2].name, DOT_A)}
StaticPath(ke) == LibDirs[ke[1]] \o SLASH \o ke[2].name
DynamicFlag(ke) == DASH_l \o _get_dynamic_library_name(ke[2].name)

\* C1: when _get_ld_flags has returned, static_libs holds the full path of
\* every regular file ending in ".a" once per listing of its directory and
\* nothing else, and dynamic_libs holds one -l<name> per other regular file
\* and nothing else; entries that are not regular files are in neither list.
C1_FileContributions ==
    SynthReturned =>
        /\ Len(static_libs) = Cardinality(StaticFiles)
        /\ Len(dynamic_libs) = Cardinality(DynamicFiles)
        /\ \A ke \in StaticFiles :
              /\ Count(StaticPath(ke), static_libs)
                    = Cardinality({o \in StaticFiles : StaticPath(o) = StaticPath(ke)})
              /\ Count(DynamicFlag(ke), dynamic_libs)
                    = Cardinality({o \in DynamicFiles : DynamicFlag(o) = DynamicFlag(ke)})
        /\ \A ke \in DynamicFiles :
              Count(DynamicFlag(ke), dynamic_libs)
                  = Cardinality({o \in DynamicFiles : DynamicFlag(o) = DynamicFlag(ke)})

\* /d1 holds libx.a and liby.so, /d2 holds only a subdirectory
C1_Witness ==
    /\ SynthReturned
    /\ LibDirs = <<D1, D2>>
    /\ fs[D1].entries = {[name |-> LIBX_A, isfile |-> TRUE],
                         [name |-> LIBY_SO, isfile |-> TRUE]}
    /\ fs[D2].entries = {[name |-> SUB_A, isfile |-> FALSE]}
    /\ static_libs = <<D1 \o SLASH \o LIBX_A>>
    /\ dynamic_libs = <<<<"-", "l", "y">>>>
    /\ dynamic_libs_dirs = <<DASH_L \o D1, DASH_L \o D2>>

\* C2: every library directory of every dependency gives exactly one -L<dir>,
\* at its place, whatever it holds; when no directory holds a regular file
\* the search-path flags are all that is synthesized.
C2_SearchPathPerDirectory ==
    /\ Len(dynamic_libs_dirs) = Len(listdir_log)
    /\ Len(dynamic_libs_dirs) <= Len(LibDirs)
    /\ \A k \in 1..Len(dynamic_libs_dirs) : dynamic_libs_dirs[k] = DASH_L \o LibDirs[k]
    /\ SynthReturned =>
          /\ Len(dynamic_libs_dirs) = Len(LibDirs)
          /\ (\A k \in 1..Len(LibDirs) : \A e \in fs[LibDirs[k]].entries : ~e.isfile)
                => /\ dynamic_libs = <<>>
                   /\ static_libs = <<>>

\* an empty directory and a directory holding only a subdirectory, each listed
\* twice
C2_Witness ==
    /\ SynthReturned
    /\ Len(LibDirs) = 4
    /\ \E d \in DirPaths : fs[d].listable /\ fs[d].entries = {}
    /\ \E d \in DirPaths : fs[d].entries = {[name |-> SUB_A, isfile |-> FALSE]}
    /\ Len(dynamic_libs_dirs) = 4
    /\ dynamic_libs = <<>>
    /\ static_libs = <<>>

\* the flags one listing gives, in the order of the listing
RECURSIVE listed_dynamic(_, _)
listed_dynamic(dir, names) ==
    IF names = <<>> THEN <<>>
    ELSE (IF /\ [name |-> Head(names), isfile |-> TRUE] \in fs[dir].entries
             /\ ~endswith(Head(names), DOT_A)
          THEN <<DASH_l \o _get_dynamic_library_name(Head(names))>> ELSE <<>>)
         \o listed_dynamic(dir, Tail(names))
RECURSIVE listed_static(_, _)
listed_static(dir, names) ==
    IF names = <<>> THEN <<>>
    ELSE (IF /\ [name |-> Head(names), isfile |-> TRUE] \in fs[dir].entries
             /\ endswith(Head(names), DOT_A)
          THEN <<dir \o SLASH \o Head(names)>> ELSE <<>>)
         \o listed_static(dir, Tail(names))
RECURSIVE logged_dynamic(_)
logged_dynamic(log) ==
    IF log = <<>> THEN <<>>
    ELSE listed_dynamic(Head(log).dir, Head(log).names) \o logged_dynamic(Tail(log))
RECURSIVE logged_static(_)
logged_static(log) ==
    IF log = <<>> THEN <<>>
    ELSE listed_static(Head(log).dir, Head(log).names) \o logged_static(Tail(log))

\* C3: the returned string is the search-path flags, then the -l flags, then
\* the static paths, the groups and their items separated by one space; the
\* items of each group are in the order of the dependencies, then of their
\* directories (then of the directory's listing).
C3_GroupsInInputOrder ==
    SynthReturned =>
        /\ Len(listdir_log) = Len(LibDirs)
        /\ \A k \in 1..Len(LibDirs) : listdir_log[k].dir = LibDirs[k]
        /\ synth_result[1] =
              str_join(SPACE, [k \in 1..Len(LibDirs) |-> DASH_L \o LibDirs[k]])
              \o SPACE \o str_join(SPACE, logged_dynamic(listdir_log))
              \o SPACE \o str_join(SPACE, logged_static(listdir_log))

\* two dependencies, the second with /d2 before /d1, all three groups filled
C3_Witness ==
    /\ SynthReturned
    /\ Len(dependencies) = 2
    /\ dependencies[1].libdirs = <<D1>>
    /\ dependencies[2].libdirs = <<D2, D1>>
    /\ Len(dynamic_libs) = 3
    /\ Len(static_libs) = 2
    /\ dynamic_libs[1] # dynamic_libs[2]

\* C4 as amended: with no library directory at all the three lists are empty
\* and the returned string holds no flag: it is the two separating spaces.
C4_NoDirectoriesNoFlags ==
    (SynthReturned /\ LibDirs = <<>>) =>
        /\ dynamic_libs_dirs = <<>>
        /\ dynamic_libs = <<>>
        /\ static_libs = <<>>
        /\ listdir_log = <<>>
        /\ synth_result[1] = <<" ", " ">>

\* C4 as stated: with no library directory the returned string is empty.
C4_EmptyString ==
    (SynthReturned /\ LibDirs = <<>>) => synth_result[1] = <<>>

\* two dependencies, neither with a library directory
C4_Witness ==
    /\ SynthReturned
    /\ Len(dependencies) = 2
    /\ LibDirs = <<>>
    /\ pc = "done"

Supported(s) ==
    /\ s.compiler \in {"gcc", "clang", "apple-clang"}
    /\ s.arch \in {"x86", "x86_64", "armv8"}

\* C6: a command is run only for a (compiler, arch) pair of the table, and it
\* carries that pair's entry as the last flag of EXT_CFLAGS; for a pair that
\* is not in the table the invocation ends in validate with the recipe's
\* configuration error and no command is run.
C6_FlagLookup ==
    /\ \A k \in 1..Len(commands) :
          /\ Supported(settings)
          /\ endswith(commands[k],
                 SPACE \o _compiler_arch_flags[settings.compiler][settings.arch]
                     \o QUOTE \o DASH_C \o source_path)
    /\ (settings.compiler = "gcc" /\ settings.arch = "x86_64" /\ pc = "done")
          => endswith(commands[1], <<" ", "-", "m", "6", "4", "'", " ", "-", "C", " ">>
                                       \o source_path)
    /\ ~Supported(settings) =>
          /\ commands = <<>>
          /\ pc \in {"validate", "failed"}
          /\ pc = "failed" => error = "ConanException"
          /\ synth_calls = 0

\* compiler "msvc": the invocation has failed
C6_Witness ==
    /\ settings.compiler = "msvc"
    /\ pc = "failed"
    /\ error = "ConanException"
    /\ commands = <<>>

\* C7: when a library directory cannot be listed the invocation has failed
\* with the error of os.listdir: nothing was returned, ld_flags was not set,
\* no command was run, and os.listdir was called on the directories up to the
\* first unlistable one, once each, and on none after it.
C7_UnlistableDirectoryFails ==
    /\ error = "OSError" =>
          /\ pc = "failed"
          /\ synth_result = <<>>
          /\ ld_flags = <<>>
          /\ commands = <<>>
          /\ Len(listdir_log) >= 1
          /\ Len(listdir_log) <= Len(LibDirs)
          /\ \A k \in 1..Len(listdir_log) :
                /\ listdir_log[k].dir = LibDirs[k]
                /\ fs[LibDirs[k]].listable <=> k < Len(listdir_log)
    /\ (shared /\ \E k \in 1..Len(LibDirs) : ~fs[LibDirs[k]].listable) =>
          /\ synth_result = <<>>
          /\ commands = <<>>
          /\ pc \notin {"run", "done"}

\* the second of three directories cannot be listed; the first gave flags
C7_Witness ==
    /\ error = "OSError"
    /\ Len(LibDirs) >= 3
    /\ Len(listdir_log) = 2
    /\ dynamic_libs # <<>>
    /\ static_libs # <<>>

\* C8: two invocations on the same dependencies and the same directory
\* contents return the same string.
C8_Deterministic ==
    (invocation = 2 /\ SynthReturned /\ first_result # <<>>)
        => synth_result = first_result

\* C9 as amended: with shared=True _get_ld_flags is called once, has returned
\* before the command is run, and the command carries its string as LDFLAGS;
\* with shared=False it is not called and the command carries no LDFLAGS.
C9_SynthesisOnceWhenShared ==
    /\ synth_calls <= 1
    /\ pc = "ld_loop" => commands = <<>> /\ synth_calls = 1
    /\ commands # <<>> =>
          /\ pc = "done"
          /\ Len(commands) = 1
          /\ shared =>
                /\ synth_calls = 1
                /\ SynthReturned
                /\ startswith(commands[1],
                       MAKE_PREFIX \o LDFLAGS_OPEN \o synth_result[1] \o QUOTE
                           \o SPACE \o EXT_CFLAGS_OPEN)
          /\ ~shared =>
                /\ synth_calls = 0
                /\ ~SynthReturned
                /\ listdir_log = <<>>
                /\ startswith(commands[1], MAKE_PREFIX \o SPACE \o EXT_CFLAGS_OPEN)
    /\ pc = "done" => commands # <<>>

\* C9 as stated: every finished build invocation has performed the synthesis
\* exactly once.
C9_SynthesisOnceAlways ==
    pc = "done" => synth_calls = 1 /\ SynthReturned

\* a shared build that has run its command with flags of all three kinds
C9_Witness ==
    /\ shared
    /\ pc = "done"
    /\ synth_calls = 1
    /\ dynamic_libs # <<>>
    /\ static_libs # <<>>
    /\ Len(commands) = 1

----------------------------------------------------------------------------
(* Properties of _get_dynamic_library_name *)

LIB == <<"l", "i", "b">>

\* the name as the specification derives it
claimed_name(file_name) ==
    split_first(IF startswith(file_name, LIB) THEN slice_from(file_name, 3)
                ELSE file_name)

\* C5: the logical name is the file name without its prefix "lib", cut at the
\* first "."; a name that does not start with "lib" loses no prefix.
C5_LogicalName ==
    n_pc = "returned" => n_lib = claimed_name(n_file_name)

----------------------------------------------------------------------------
(* Properties of aerospike-client-c *)

\* C10: build() looks up only requirements that requirements() declared, so
\* no lookup fails.
C10_BuildReadsDeclared ==
    /\ \A k \in 1..Len(c_lookups) :
          \E r \in 1..Len(c_requires) : c_requires[r] = c_lookups[k]
    /\ c_error # "KeyError"

----------------------------------------------------------------------------
(* The specifications *)

Init == CommonInit /\ ClientIdle /\ NameIdle
Next == CommonNext
Spec == Init /\ [][Next]_vars

NextRepeat ==
    \/ validate
    \/ build_begin
    \/ ld_directory
    \/ ld_return
    \/ build_run
    \/ build_again
SpecRepeat == Init /\ [][NextRepeat]_vars

InitClient == CommonIdle /\ ClientInit /\ NameIdle
NextClient ==
    \/ c_configure
    \/ c_requirements
    \/ c_validate
    \/ c_build
SpecClient == InitClient /\ [][NextClient]_vars

InitName == CommonIdle /\ ClientIdle /\ NameInit
NextName == name_call
SpecName == InitName /\ [][NextName]_vars

====
